---- MODULE Spec2Model ----
(***************************************************************************)
(* Model of the prompt-variant evaluation harness (eval/run_eval.py):      *)
(* prompt rendering, applicability filtering, the two scorers, the main    *)
(* loop and the CSV / JSON exports.                                        *)
(*                                                                         *)
(* Python values are tagged records ([t |-> "str", v |-> ...]); a Python   *)
(* dict is a TLA+ function whose DOMAIN is the set of keys present.        *)
(* Floats that the code rounds to 3 decimals are integers in thousandths.  *)
(* A model output (a Python str) is described by what the library calls    *)
(* the code applies to it return: its whitespace split and the outcome of  *)
(* json.loads.                                                             *)
(***************************************************************************)
EXTENDS Integers, Sequences, FiniteSets, TLC

VARIABLES variants, cases, vi, ci, pc, err, request, rows, out_csv, out_json,
          fn_in, fn_out, tk

vars == <<variants, cases, vi, ci, pc, err, request, rows, out_csv, out_json,
          fn_in, fn_out, tk>>

---------------------------------------------------------------------------
(* Bounds *)

\* longest variant list loaded by a run
MaxVariants == 2
\* longest case list loaded by a run
MaxCases == 2
\* largest max_words declared by a case of the scorer pool
MaxLimit == 2
\* longest plain-prose output (in words) of the scorer pool
MaxWordsOut == 4
\* largest token count the backend reports
MaxTokens == 2

---------------------------------------------------------------------------
(* Python values *)

PyNone == [t |-> "None"]
PyStr(s) == [t |-> "str", v |-> s]
PyInt(n) == [t |-> "int", v |-> n]
\* a float, in thousandths
PyFloat(n) == [t |-> "float", v |-> n]
PyList(s) == [t |-> "list", v |-> s]
PyDict(d) == [t |-> "dict", v |-> d]
EmptyDict == [k \in {} |-> PyNone]

\* bool(v)
Truthy(v) ==
  CASE v.t = "None" -> FALSE
    [] v.t = "str" -> v.v # ""
    [] v.t = "int" -> v.v # 0
    [] v.t = "float" -> v.v # 0
    [] v.t = "list" -> Len(v.v) # 0
    [] v.t = "dict" -> DOMAIN v.v # {}
    [] v.t = "text" -> v.pad \/ Len(v.split) # 0

Raised(e) == [raised |-> TRUE, exc |-> e]
Returned(x) == [raised |-> FALSE, val |-> x]

\* d.get(k, default)
Get(d, k, default) == IF k \in DOMAIN d THEN d[k] ELSE default

\* str.lower() / str.capitalize() on the words the pools use
LowerTable ==
  [s \in {"Positive", "POSITIVE", "Negative", "NEGATIVE", "Neutral", "REFUND", "Delay"} |->
     CASE s \in {"Positive", "POSITIVE"} -> "positive"
       [] s \in {"Negative", "NEGATIVE"} -> "negative"
       [] s = "Neutral" -> "neutral"
       [] s = "REFUND" -> "refund"
       [] s = "Delay" -> "delay"]
Lower(s) == IF s \in DOMAIN LowerTable THEN LowerTable[s] ELSE s
Capitalize(s) ==
  CASE Lower(s) = "positive" -> "Positive"
    [] Lower(s) = "negative" -> "Negative"
    [] Lower(s) = "neutral" -> "Neutral"
    [] OTHER -> s

---------------------------------------------------------------------------
(* Model outputs *)

JsonError == [ok |-> FALSE]
JsonValue(v) == [ok |-> TRUE, val |-> v]

\* a str returned by the model: pad = it has leading/trailing whitespace,
\* split = text.split(), json = the outcome of json.loads(text)
Text(pad, split, json) == [t |-> "text", pad |-> pad, split |-> split, json |-> json]

\* n words of plain prose
Prose(n) == Text(FALSE, [i \in 1..n |-> "word"], JsonError)

RECURSIVE Join(_, _)
Join(ws, sep) ==
  IF Len(ws) = 0 THEN ""
  ELSE IF Len(ws) = 1 THEN ws[1]
  ELSE ws[1] \o sep \o Join(Tail(ws), sep)

\* text.strip()
Strip(text) == Join(text.split, " ")

T_empty == Text(FALSE, <<>>, JsonError)
T_blank == Text(TRUE, <<>>, JsonError)
T_refund == Text(FALSE, <<"REFUND", "issued">>, JsonError)
T_negative == Text(TRUE, <<"this", "is", "NEGATIVE", "not", "Positive">>, JsonError)
D_positive ==
  Text(FALSE, <<"{\"label\":\"Positive\",\"confidence\":0.9}">>,
       JsonValue(PyDict([label |-> PyStr("Positive"), confidence |-> PyFloat(900)])))
D_nolabel ==
  Text(FALSE, <<"{\"sentiment\":\"Positive\"}">>,
       JsonValue(PyDict([sentiment |-> PyStr("Positive")])))
D_nulllabel ==
  Text(FALSE, <<"{\"label\":null}">>, JsonValue(PyDict([label |-> PyNone])))
D_intlabel ==
  Text(FALSE, <<"{\"label\":5}">>, JsonValue(PyDict([label |-> PyInt(5)])))
D_list == Text(FALSE, <<"[1]">>, JsonValue(PyList(<<PyInt(1)>>)))
D_emptylist == Text(FALSE, <<"[]">>, JsonValue(PyList(<<>>)))
D_null == Text(FALSE, <<"null">>, JsonValue(PyNone))

---------------------------------------------------------------------------
(* Template Renderer *)

Lit(s) == [lit |-> s]
Field(f) == [field |-> f]

\* tmpl.format(task=..., input=...): a replacement field that names neither
\* keyword argument raises KeyError
RECURSIVE FormatParts(_, _, _)
FormatParts(parts, task, input) ==
  IF Len(parts) = 0 THEN ""
  ELSE LET p == parts[1]
           head == IF "lit" \in DOMAIN p THEN p.lit
                   ELSE IF p.field = "task" THEN task ELSE input
       IN head \o FormatParts(Tail(parts), task, input)

Format(tmpl, task, input) ==
  IF \E i \in 1..Len(tmpl) : "field" \in DOMAIN tmpl[i] /\ tmpl[i].field \notin {"task", "input"}
  THEN Raised("KeyError")
  ELSE Returned(FormatParts(tmpl, task, input))

\* the few-shot lines: f"User: {s['user']}\nAssistant: {s['model']}"
ShotLines(shots) ==
  [i \in 1..Len(shots) |-> "User: " \o shots[i].user \o "\nAssistant: " \o shots[i].model]

render_prompt(variant, case) ==
  LET sys == Get(variant, "system", PyNone)
      task == Get(case, "task", "")
      input == Get(case, "input", "")
      formatted == Format(variant.prompt_template, task, input)
      shots == Get(variant, "few_shots", <<>>)
      prompt == IF Len(shots) # 0
                THEN Join(ShotLines(shots), "\n\n") \o "\n\n"
                     \o "User: " \o task \o "\n" \o input \o "\n"
                     \o "Assistant:"
                ELSE formatted.val
  IN IF formatted.raised THEN formatted
     ELSE Returned([prompt |-> prompt, system |-> sys,
                    mime |-> Get(variant, "response_mime_type", PyNone)])

---------------------------------------------------------------------------
(* Scoring *)

\* round(max(0.0, p/q), 3) in thousandths, q # 0; a tie goes to the even
\* neighbour
RoundMilli(p, q) ==
  LET num == IF q < 0 THEN -p ELSE p
      den == IF q < 0 THEN -q ELSE q
      fl == (1000 * num) \div den
      rem == (1000 * num) % den
  IN IF num <= 0 THEN 0
     ELSE IF 2 * rem < den THEN fl
     ELSE IF 2 * rem > den THEN fl + 1
     ELSE IF fl % 2 = 0 THEN fl ELSE fl + 1

\* re.search(re.escape(k), output, re.I): k occurs as a word of the output
Search(k, output) ==
  \E i \in 1..Len(output.split) : Lower(output.split[i]) = Lower(k)

\* score_summarize with the penalty taken relative to the word count
score_summarize_per_word(output, case) ==
  IF output.t = "None" THEN Raised("AttributeError")
  ELSE
    LET words == Len(output.split)
        max_words == Get(case, "max_words", 9999)
        kws == IF "keywords" \in DOMAIN case THEN case.keywords ELSE <<>>
        hits == Cardinality({i \in 1..Len(kws) : Search(kws[i], output)})
        s_keys == IF Len(kws) # 0 THEN RoundMilli(hits, Len(kws)) ELSE 0
    IN IF words <= max_words
       THEN Returned([words |-> PyInt(words), score_len |-> PyFloat(1000),
                      score_keywords |-> PyFloat(s_keys)])
       ELSE IF max_words = 0 THEN Raised("ZeroDivisionError")
       ELSE Returned([words |-> PyInt(words),
                      score_len |-> PyFloat(RoundMilli(words - (words - max_words), words)),
                      score_keywords |-> PyFloat(s_keys)])

score_summarize(output, case) ==
  IF output.t = "None" THEN Raised("AttributeError")
  ELSE
    LET words == Len(output.split)
        max_words == Get(case, "max_words", 9999)
        kws == IF "keywords" \in DOMAIN case THEN case.keywords ELSE <<>>
        hits == Cardinality({i \in 1..Len(kws) : Search(kws[i], output)})
        s_keys == IF Len(kws) # 0 THEN RoundMilli(hits, Len(kws)) ELSE 0
    IN IF words <= max_words
       THEN Returned([words |-> PyInt(words), score_len |-> PyFloat(1000),
                      score_keywords |-> PyFloat(s_keys)])
       ELSE IF max_words = 0 THEN Raised("ZeroDivisionError")
       ELSE Returned([words |-> PyInt(words),
                      score_len |-> PyFloat(RoundMilli(max_words - (words - max_words), max_words)),
                      score_keywords |-> PyFloat(s_keys)])

LabelWords == {"positive", "neutral", "negative"}

\* re.search(r"(Positive|Neutral|Negative)", output, re.I): the position of
\* the first matching word, 0 when there is none
FirstLabel(split) ==
  LET hit == {i \in 1..Len(split) : Lower(split[i]) \in LabelWords}
  IN IF hit = {} THEN 0 ELSE CHOOSE i \in hit : \A j \in hit : i <= j

score_classify(output, case) ==
  IF output.t = "None" THEN Raised("TypeError")
  ELSE
    LET m == FirstLabel(output.split)
        parsed == IF output.json.ok THEN output.json.val
                  ELSE IF m # 0
                  THEN PyDict([label |-> PyStr(Capitalize(output.split[m])),
                               confidence |-> PyNone])
                  ELSE PyNone
        ok_json == IF parsed.t = "dict" /\ "label" \in DOMAIN parsed.v THEN 1000 ELSE 0
        rec == IF Truthy(parsed) THEN parsed ELSE PyDict(EmptyDict)
        label == Get(rec.v, "label", PyNone)
        expect == Get(case, "expected_label", PyNone)
    IN IF rec.t # "dict" THEN Raised("AttributeError")
       ELSE IF Truthy(label) /\ Truthy(expect)
       THEN IF label.t # "str" \/ expect.t # "str" THEN Raised("AttributeError")
            ELSE Returned([ok_json |-> PyFloat(ok_json), label |-> label,
                           score_label |-> PyFloat(IF Lower(label.v) = Lower(expect.v)
                                                   THEN 1000 ELSE 0)])
       ELSE Returned([ok_json |-> PyFloat(ok_json), label |-> label,
                      score_label |-> PyFloat(0)])

\* round(x / 2, 3) for x a sum of two 3-decimal floats, in thousandths: when
\* x/2 falls halfway between two thousandths, the binary value of the float
\* decides the direction, so both neighbours are possible
RoundHalf(x) ==
  IF x % 2 = 0 THEN {x \div 2} ELSE {(x - 1) \div 2, (x + 1) \div 2}

---------------------------------------------------------------------------
(* Inputs of a run: prompts/variants.yaml and data/cases.json *)

Template1 == <<Field("task"), Lit("\n\n"), Field("input")>>
Template2 == <<Lit("Input: "), Field("input"), Lit("\nTask: "), Field("task")>>
\* references a placeholder that format() is not given
TemplateBad == <<Field("task"), Lit(" "), Field("text")>>

Shot1 == [user |-> "Great product", model |-> "{\"label\":\"Positive\"}"]
Shot2 == [user |-> "It broke", model |-> "{\"label\":\"Negative\"}"]

V_baseline == [id |-> "baseline", prompt_template |-> Template1]
V_json ==
  [id |-> "json", system |-> PyStr("Answer in JSON."), prompt_template |-> Template2,
   few_shots |-> <<Shot1, Shot2>>, applies_to |-> {"classify"},
   response_mime_type |-> PyStr("application/json")]
V_open ==
  [id |-> "open", prompt_template |-> Template1,
   applies_to |-> {"summarize", "translate"}]
V_broken ==
  [id |-> "broken", prompt_template |-> TemplateBad, few_shots |-> <<Shot1>>,
   applies_to |-> {"classify"}]

VariantPool == {V_baseline, V_json, V_open, V_broken}

S_two ==
  [id |-> "s2", type |-> "summarize", task |-> "Summarize", input |-> "Refund delayed",
   max_words |-> 2, keywords |-> <<"refund", "Delay">>]
S_zero ==
  [id |-> "s0", type |-> "summarize", task |-> "Summarize", input |-> "Empty",
   max_words |-> 0]
S_neg ==
  [id |-> "s9", type |-> "summarize", task |-> "Summarize", input |-> "Negative limit",
   max_words |-> -1]
C_pos ==
  [id |-> "c1", type |-> "classify", task |-> "Classify", input |-> "Love it",
   expected_label |-> PyStr("positive")]
U_translate == [id |-> "u1", type |-> "translate", task |-> "Translate", input |-> "Hola"]

CasePool == {S_two, S_zero, S_neg, C_pos, U_translate}

\* lists of distinct entries of pool, 1..n long
Lists(pool, n) ==
  {s \in UNION {[1..k -> pool] : k \in 1..n} :
     \A i, j \in 1..Len(s) : i # j => s[i] # s[j]}

\* what resp.text can be
ModelOutputs == {PyNone, T_empty, T_negative, D_positive}

---------------------------------------------------------------------------
(* main(): the evaluation loop *)

NoRequest == [api |-> "none"]
NoError == [stage |-> "none"]
NotWritten == [written |-> FALSE]
NoCall == [op |-> "none"]
NoTokens == [handler |-> "none"]

Init ==
  /\ variants \in Lists(VariantPool, MaxVariants)
  /\ cases \in Lists(CasePool, MaxCases)
  /\ vi = 1
  /\ ci = 1
  /\ pc = "loop"
  /\ err = NoError
  /\ request = NoRequest
  /\ rows = <<>>
  /\ out_csv = NotWritten
  /\ out_json = NotWritten
  /\ fn_in = <<>>
  /\ fn_out = NoCall
  /\ tk = NoTokens

\* allowed with a default that forgets "classify"
allowed_summarize_only(v) == Get(v, "applies_to", {"summarize"})

\* allowed = set(v.get("applies_to", ["summarize", "classify"]))
allowed(v) == Get(v, "applies_to", {"summarize", "classify"})

\* Continue that leaves the inner loop after every pair
Continue_next_variant ==
  /\ vi' = vi + 1
  /\ ci' = 1
  /\ pc' = IF vi < Len(variants) THEN "loop" ELSE "csv"

\* the next iteration of "for v in variants: for case in cases"
Continue ==
  /\ vi' = IF ci < Len(cases) THEN vi ELSE vi + 1
  /\ ci' = IF ci < Len(cases) THEN ci + 1 ELSE 1
  /\ pc' = IF ci < Len(cases) \/ vi < Len(variants) THEN "loop" ELSE "csv"

\* if case["type"] not in allowed: continue
SkipPair ==
  /\ pc = "loop"
  /\ cases[ci].type \notin allowed(variants[vi])
  /\ Continue
  /\ UNCHANGED <<variants, cases, err, request, rows, out_csv, out_json, fn_in, fn_out, tk>>

\* render_prompt raises: the exception leaves main()
RenderFail ==
  /\ pc = "loop"
  /\ cases[ci].type \in allowed(variants[vi])
  /\ render_prompt(variants[vi], cases[ci]).raised
  /\ pc' = "crashed"
  /\ err' = [stage |-> "render", exc |-> render_prompt(variants[vi], cases[ci]).exc]
  /\ UNCHANGED <<variants, cases, vi, ci, request, rows, out_csv, out_json, fn_in, fn_out, tk>>

\* the model call of the pair is issued
StartInvoke ==
  /\ pc = "loop"
  /\ cases[ci].type \in allowed(variants[vi])
  /\ LET r == render_prompt(variants[vi], cases[ci])
     IN /\ ~r.raised
        /\ request' = [api |-> IF Truthy(r.val.mime) THEN "generate_content"
                               ELSE "generate_text",
                       prompt |-> r.val.prompt,
                       system_instruction |-> Get(variants[vi], "system", PyNone),
                       response_mime_type |-> IF Truthy(r.val.mime) THEN r.val.mime
                                              ELSE PyNone]
  /\ pc' = "invoking"
  /\ UNCHANGED <<variants, cases, vi, ci, err, rows, out_csv, out_json, fn_in, fn_out, tk>>

\* the model call raises: the exception leaves main()
InvokeFail ==
  /\ pc = "invoking"
  /\ pc' = "crashed"
  /\ err' = [stage |-> "generate", exc |-> "GenerationError"]
  /\ request' = NoRequest
  /\ UNCHANGED <<variants, cases, vi, ci, rows, out_csv, out_json, fn_in, fn_out, tk>>

\* Scored with the sum of the two sub-scores left undivided
Scored_sum(result, metrics, a, b) ==
  {("total_score" :> PyFloat(metrics[a].v + metrics[b].v)) @@ metrics @@ result}

\* result.update(score(...)); result["total_score"] = round((a + b) / 2, 3)
Scored(result, metrics, a, b) ==
  {("total_score" :> PyFloat(t)) @@ metrics @@ result :
     t \in RoundHalf(metrics[a].v + metrics[b].v)}

\* the records the pair can produce for model output text; {} when scoring raises
Results(v, case, text) ==
  LET result == [variant |-> PyStr(v.id), case_id |-> PyStr(case.id),
                 type |-> PyStr(case.type),
                 output |-> PyStr(IF Truthy(text) THEN Strip(text) ELSE "")]
  IN IF case.type = "summarize"
     THEN LET m == score_summarize(text, case)
          IN IF m.raised THEN {} ELSE Scored(result, m.val, "score_len", "score_keywords")
     ELSE IF case.type = "classify"
     THEN LET m == score_classify(text, case)
          IN IF m.raised THEN {} ELSE Scored(result, m.val, "ok_json", "score_label")
     ELSE {result}

ScoreError(case, text) ==
  IF case.type = "summarize" THEN score_summarize(text, case)
  ELSE score_classify(text, case)

\* the model call returns text; the pair is scored and its record appended,
\* or the scorer raises and the exception leaves main()
InvokeReturn ==
  /\ pc = "invoking"
  /\ \E text \in ModelOutputs :
       LET rs == Results(variants[vi], cases[ci], text)
       IN IF rs = {}
          THEN /\ pc' = "crashed"
               /\ err' = [stage |-> "score", exc |-> ScoreError(cases[ci], text).exc]
               /\ UNCHANGED <<vi, ci, rows>>
          ELSE /\ \E r \in rs : rows' = Append(rows, r)
               /\ Continue
               /\ UNCHANGED err
  /\ request' = NoRequest
  /\ UNCHANGED <<variants, cases, out_csv, out_json, fn_in, fn_out, tk>>

---------------------------------------------------------------------------
(* main(): the exports *)

core == <<"variant", "case_id", "type", "output", "total_score">>

Range(s) == {s[i] : i \in 1..Len(s)}

\* the keys a record can have besides core, in the order sorted() gives them
KeyOrder == <<"label", "ok_json", "score_keywords", "score_label", "score_len", "words">>

\* sorted(S) for a set of keys
Sorted(S) == SelectSeq(KeyOrder, LAMBDA k : k \in S)

\* metrics taken from the keys of the first record only
metrics_first_record(rs) ==
  Sorted((IF Len(rs) = 0 THEN {} ELSE DOMAIN rs[1]) \ Range(core))

\* metrics = sorted({k for r in rows for k in r.keys()} - set(core))
metrics(rs) == Sorted(UNION {DOMAIN rs[i] : i \in 1..Len(rs)} \ Range(core))

fieldnames(rs) == core \o metrics(rs)

\* for k in fieldnames: r.setdefault(k, "")
SetDefaults(r, names) ==
  [k \in DOMAIN r \cup Range(names) |-> IF k \in DOMAIN r THEN r[k] ELSE PyStr("")]

Digit(d) == ToString(d)

\* str(x) of a float given in thousandths
FloatStr(n) ==
  LET f == n % 1000
      d1 == Digit(f \div 100)
      d2 == Digit((f \div 10) % 10)
      d3 == Digit(f % 10)
  IN ToString(n \div 1000) \o "." \o
     (IF f % 10 # 0 THEN d1 \o d2 \o d3
      ELSE IF f % 100 # 0 THEN d1 \o d2
      ELSE d1)

\* the cell csv writes for a value: None becomes "", anything else str(value)
CsvCell(v) ==
  CASE v.t = "None" -> ""
    [] v.t = "str" -> v.v
    [] v.t = "int" -> ToString(v.v)
    [] v.t = "float" -> FloatStr(v.v)

\* csv.DictWriter.writerow(r): one cell per field name, restval "" for a
\* missing key
WriteRow(r, names) ==
  [j \in 1..Len(names) |-> IF names[j] \in DOMAIN r THEN CsvCell(r[names[j]]) ELSE ""]

\* results.csv is written; setdefault pads the records of rows in place
WriteCsv ==
  /\ pc = "csv"
  /\ LET names == fieldnames(rows)
         padded == [i \in 1..Len(rows) |-> SetDefaults(rows[i], names)]
     IN /\ rows' = padded
        /\ out_csv' = [written |-> TRUE, header |-> names,
                       body |-> [i \in 1..Len(rows) |-> WriteRow(padded[i], names)]]
  /\ pc' = "json"
  /\ UNCHANGED <<variants, cases, vi, ci, err, request, out_json, fn_in, fn_out, tk>>

\* results.json is written from rows
WriteJson ==
  /\ pc = "json"
  /\ out_json' = [written |-> TRUE, records |-> rows]
  /\ pc' = "done"
  /\ UNCHANGED <<variants, cases, vi, ci, err, request, rows, out_csv, fn_in, fn_out, tk>>

Next ==
  \/ SkipPair
  \/ RenderFail
  \/ StartInvoke
  \/ InvokeFail
  \/ InvokeReturn
  \/ WriteCsv
  \/ WriteJson

Spec == Init /\ [][Next]_vars

---------------------------------------------------------------------------
(* The renderer and the scorers applied on their own *)

FnShots == {<<>>, <<Shot1>>, <<Shot1, Shot2>>}
FnTemplates == {Template1, Template2, TemplateBad}
FnVariants ==
  {[id |-> "v", prompt_template |-> t] : t \in FnTemplates} \cup
  {[id |-> "v", prompt_template |-> t, few_shots |-> sh] : t \in FnTemplates, sh \in FnShots}

FnSummarize ==
  {[id |-> "s", type |-> "summarize", task |-> "Summarize", input |-> "Refund delayed"]} \cup
  {[id |-> "s", type |-> "summarize", task |-> "Summarize", input |-> "Refund delayed",
    max_words |-> m] : m \in -1..MaxLimit} \cup
  {[id |-> "s", type |-> "summarize", task |-> "Summarize", input |-> "Refund delayed",
    max_words |-> m, keywords |-> <<"refund", "Delay">>] : m \in 0..MaxLimit}
FnClassify ==
  {[id |-> "c", type |-> "classify", task |-> "Classify", input |-> "Love it"]} \cup
  {[id |-> "c", type |-> "classify", task |-> "Classify", input |-> "Love it",
    expected_label |-> PyStr(e)] : e \in {"positive", "NEGATIVE"}}
FnCases == FnSummarize \cup FnClassify

FnTexts ==
  {PyNone, T_empty, T_blank, T_refund, T_negative, D_positive, D_nolabel, D_nulllabel,
   D_intlabel, D_list, D_emptylist, D_null} \cup {Prose(n) : n \in 1..MaxWordsOut}

InitFn ==
  /\ fn_in \in [variant : FnVariants, case : FnCases]
  /\ fn_out = NoCall
  /\ variants = <<>>
  /\ cases = <<>>
  /\ vi = 1
  /\ ci = 1
  /\ pc = "fn"
  /\ err = NoError
  /\ request = NoRequest
  /\ rows = <<>>
  /\ out_csv = NotWritten
  /\ out_json = NotWritten
  /\ tk = NoTokens

MainVars == <<variants, cases, vi, ci, pc, err, request, rows, out_csv, out_json>>

CallRender ==
  /\ pc = "fn"
  /\ fn_out' = [op |-> "render_prompt", res |-> render_prompt(fn_in.variant, fn_in.case)]
  /\ UNCHANGED <<MainVars, fn_in, tk>>

CallScoreSummarize ==
  /\ pc = "fn"
  /\ fn_in.case.type = "summarize"
  /\ \E text \in FnTexts :
       fn_out' = [op |-> "score_summarize", output |-> text,
                  res |-> score_summarize(text, fn_in.case)]
  /\ UNCHANGED <<MainVars, fn_in, tk>>

CallScoreClassify ==
  /\ pc = "fn"
  /\ fn_in.case.type = "classify"
  /\ \E text \in FnTexts :
       fn_out' = [op |-> "score_classify", output |-> text,
                  res |-> score_classify(text, fn_in.case)]
  /\ UNCHANGED <<MainVars, fn_in, tk>>

NextFn ==
  \/ CallRender
  \/ CallScoreSummarize
  \/ CallScoreClassify

SpecFn == InitFn /\ [][NextFn]_vars

---------------------------------------------------------------------------
(* Properties of the evaluation loop *)

\* applies(variant, case) as the specification states it
Applies(v, c) ==
  IF "applies_to" \in DOMAIN v THEN c.type \in v.applies_to
  ELSE c.type \in {"summarize", "classify"}

\* the (variant, case) index pairs in variant-major order
AllPairs ==
  [n \in 1..(Len(variants) * Len(cases)) |->
     <<((n - 1) \div Len(cases)) + 1, ((n - 1) % Len(cases)) + 1>>]

ExpectedPairs == SelectSeq(AllPairs, LAMBDA p : Applies(variants[p[1]], cases[p[2]]))

LoopCompleted == pc \in {"csv", "json", "done"}

\* C1: after a run of the loop that completes, the result sequence is the
\* variant-major cross product of variants and cases restricted to the
\* applicable pairs: every applicable pair once, no inapplicable pair, in
\* variant declaration order and then case declaration order.
C1_CrossProduct ==
  LoopCompleted =>
    [i \in 1..Len(rows) |-> <<rows[i].variant.v, rows[i].case_id.v>>]
      = [i \in 1..Len(ExpectedPairs) |->
           <<variants[ExpectedPairs[i][1]].id, cases[ExpectedPairs[i][2]].id>>]

\* a completed run over two variants and two cases, one variant without
\* applies_to, where some pairs were skipped and records of both variants exist
C1_Witness ==
  /\ pc = "done"
  /\ Len(variants) = 2 /\ Len(cases) = 2
  /\ \E i \in 1..2 : "applies_to" \notin DOMAIN variants[i]
  /\ Len(rows) = 3
  /\ rows[1].variant # rows[3].variant

\* C2: writing the tabular export does not add keys to any record, so every
\* record of the structured export has only the keys scoring gave it.
C2_ExportAddsNoKeys ==
  [][pc = "csv" =>
       /\ Len(rows') = Len(rows)
       /\ \A i \in 1..Len(rows) : DOMAIN rows'[i] = DOMAIN rows[i]]_vars

\* C3: when the model invocation fails after k >= 1 pairs succeeded, both
\* exports are written and hold the k records.
C3_PartialExports ==
  (pc = "crashed" /\ err.stage = "generate" /\ Len(rows) >= 1) =>
    /\ out_csv.written /\ Len(out_csv.body) = Len(rows)
    /\ out_json.written /\ Len(out_json.records) = Len(rows)

\* C4: scoring never aborts the run, whatever the case's expectation fields
\* and whatever output the model returned.
C4_ScoringNeverAborts == ~(pc = "crashed" /\ err.stage = "score")

IsNumber(v) == v.t \in {"int", "float"}

CoreFields == {"variant", "case_id", "type", "output"}

Appended == Len(rows') = Len(rows) + 1

\* C5 as stated: every appended record has the core fields and a total_score
\* that is a number in [0,1], for any case type.
C5_TotalScoreAlways ==
  [][Appended =>
       LET r == rows'[Len(rows')]
       IN /\ CoreFields \subseteq DOMAIN r
          /\ "total_score" \in DOMAIN r
          /\ IsNumber(r.total_score)
          /\ 0 <= r.total_score.v /\ r.total_score.v <= 1000]_vars

\* C5 (amended): every appended record has the core fields; a summarize or
\* classify record also has a numeric total_score that is never negative and
\* is at most 1 unless the summarize case declares a negative max_words; a
\* record of a type without a built-in scorer has no total_score.
C5_RecordShape ==
  [][Appended =>
       LET r == rows'[Len(rows')]
           c == cases[ci]
       IN /\ CoreFields \subseteq DOMAIN r
          /\ r.variant = PyStr(variants[vi].id) /\ r.case_id = PyStr(c.id)
          /\ r.type = PyStr(c.type) /\ r.output.t = "str"
          /\ IF c.type \in {"summarize", "classify"}
             THEN /\ "total_score" \in DOMAIN r
                  /\ IsNumber(r.total_score)
                  /\ 0 <= r.total_score.v
                  /\ (c.type = "summarize" /\ "max_words" \in DOMAIN c /\ c.max_words < 0)
                       \/ r.total_score.v <= 1000
             ELSE "total_score" \notin DOMAIN r]_vars

\* before the exports: a record of an unscored type without total_score, a
\* classify record scored 0.5 and a summarize record with a total_score
C5_Witness ==
  /\ pc = "csv"
  /\ \E i \in 1..Len(rows) :
       rows[i].type.v = "translate" /\ "total_score" \notin DOMAIN rows[i]
  /\ \E i \in 1..Len(rows) :
       rows[i].type.v \in {"summarize", "classify"} /\ rows[i].total_score.v = 500

\* position of key k in the header h, 0 when absent
Column(h, k) ==
  IF k \in Range(h) THEN CHOOSE j \in 1..Len(h) : h[j] = k ELSE 0

\* a precedes b alphabetically
Alphabetical(a, b) == Column(KeyOrder, a) < Column(KeyOrder, b)

\* C6: the tabular export has the header variant, case_id, type, output,
\* total_score followed by the alphabetically sorted union of every other key
\* of any record; there is one row per record, in order; every row has one
\* cell per column, holding the record's value for the column's key, or the
\* empty string when the record lacks the key.
C6_TabularExport ==
  [][pc = "csv" =>
       LET h == out_csv'.header
           b == out_csv'.body
           others == UNION {DOMAIN rows[i] : i \in 1..Len(rows)} \ Range(core)
       IN /\ out_csv'.written
          /\ SubSeq(h, 1, 5) = <<"variant", "case_id", "type", "output", "total_score">>
          /\ {h[j] : j \in 6..Len(h)} = others
          /\ Len(h) = 5 + Cardinality(others)
          /\ \A j, k \in 6..Len(h) : j < k => Alphabetical(h[j], h[k])
          /\ Len(b) = Len(rows)
          /\ \A i \in 1..Len(rows) :
               /\ Len(b[i]) = Len(h)
               /\ \A j \in 1..Len(h) :
                    b[i][j] = IF h[j] \in DOMAIN rows[i] THEN CsvCell(rows[i][h[j]])
                              ELSE ""]_vars

\* a written table of a mixed run: its ok_json column is empty in one row and
\* filled in another, and a record without total_score has an empty cell there
C6_Witness ==
  /\ out_csv.written
  /\ Column(out_csv.header, "ok_json") # 0
  /\ Column(out_csv.header, "words") # 0
  /\ \E i, k \in 1..Len(out_csv.body) :
       /\ out_csv.body[i][Column(out_csv.header, "ok_json")] = ""
       /\ out_csv.body[k][Column(out_csv.header, "ok_json")] = "1.0"

\* the cell of key k in row i of the table, "" when the table has no column k
CellOf(i, k) ==
  IF Column(out_csv.header, k) = 0 THEN ""
  ELSE out_csv.body[i][Column(out_csv.header, k)]

\* C7: for a run over mixed summarize and classify cases, rebuilding each
\* record from its tabular row, an empty cell meaning "key absent", gives the
\* record at the same position of the structured export: key by key, both
\* lack the key or both have it with the same value.
C7_RoundTrip ==
  (/\ out_csv.written /\ out_json.written
   /\ \E i \in 1..Len(out_json.records) : out_json.records[i].type.v = "summarize"
   /\ \E i \in 1..Len(out_json.records) : out_json.records[i].type.v = "classify") =>
    /\ Len(out_csv.body) = Len(out_json.records)
    /\ \A i \in 1..Len(out_json.records) :
         LET rec == out_json.records[i]
         IN \A k \in DOMAIN rec \cup Range(out_csv.header) :
              \/ CellOf(i, k) = "" /\ k \notin DOMAIN rec
              \/ CellOf(i, k) # "" /\ k \in DOMAIN rec /\ CsvCell(rec[k]) = CellOf(i, k)

---------------------------------------------------------------------------
(* Properties of the scorers and the renderer *)

SummarizeCall == fn_out.op = "score_summarize" /\ fn_out.output.t = "text"

\* the max_words in effect for the case of the call
Limit == IF "max_words" \in DOMAIN fn_in.case THEN fn_in.case.max_words ELSE 9999

\* s (in thousandths) is x/m rounded to 3 decimals, m > 0
RoundsTo(s, x, m) == 2 * (s * m - 1000 * x) <= m /\ 2 * (1000 * x - s * m) <= m

\* score_len of w words under limit m: 1.0 when w <= m, otherwise
\* max(0, 1 - (w - m)/m) rounded to 3 decimals; in [0,1]; 1.0 at w = m,
\* 0.5 at w = m + m/2 and 0.0 from w = 2m on
LengthScoreLaw(res, w, m) ==
  /\ ~res.raised
  /\ res.val.words = PyInt(w)
  /\ LET s == res.val.score_len.v
     IN /\ res.val.score_len.t = "float"
        /\ 0 <= s /\ s <= 1000
        /\ w <= m => s = 1000
        /\ (w > m /\ w < 2 * m) => RoundsTo(s, 2 * m - w, m)
        /\ w = m => s = 1000
        /\ 2 * w = 3 * m => s = 500
        /\ w >= 2 * m => s = 0

\* score_len never increases when the same case is scored on a longer output
LengthScoreMonotone ==
  (SummarizeCall /\ SummarizeCall' /\ fn_in' = fn_in
     /\ ~fn_out.res.raised /\ ~fn_out'.res.raised
     /\ Len(fn_out.output.split) <= Len(fn_out'.output.split))
    => fn_out'.res.val.score_len.v <= fn_out.res.val.score_len.v

\* C8 as stated: the length score law holds for every word count and every
\* declared max_words.
C8_LengthScoreAnyLimit ==
  (SummarizeCall /\ "max_words" \in DOMAIN fn_in.case) =>
    LengthScoreLaw(fn_out.res, Len(fn_out.output.split), Limit)

\* C8 (amended): for every word count w >= 0 and every max_words m >= 1,
\* score_len is 1.0 when w <= m, otherwise max(0, 1 - (w - m)/m) rounded to 3
\* decimals; it is in [0,1], non-increasing in w, 1.0 at w = m, 0.5 at
\* w = m + m/2 and 0.0 at every w >= 2m.
C8_LengthScore ==
  /\ [](SummarizeCall /\ Limit >= 1 =>
          LengthScoreLaw(fn_out.res, Len(fn_out.output.split), Limit))
  /\ [][Limit >= 1 => LengthScoreMonotone]_vars

\* a summarize call in the penalty zone: 3 words under max_words = 2 score 0.5
C8_Witness ==
  /\ SummarizeCall
  /\ Limit = 2
  /\ Len(fn_out.output.split) = 3
  /\ ~fn_out.res.raised
  /\ fn_out.res.val.score_len = PyFloat(500)

\* the record the classify scorer obtains from an output, as the
\* specification states it: the parsed output when it is a record, the
\* synthetic label record when parsing fails and a label word occurs
ObtainedRecord(output) ==
  IF output.json.ok
  THEN IF output.json.val.t = "dict" THEN <<output.json.val.v>> ELSE <<>>
  ELSE IF FirstLabel(output.split) # 0
  THEN <<[label |-> PyStr(Capitalize(output.split[FirstLabel(output.split)])),
          confidence |-> PyNone]>>
  ELSE <<>>

\* C9: for every output and case, ok_json is 1.0 iff a record was obtained and
\* has a label key; score_label is 1.0 iff a label was obtained,
\* expected_label is set and the two are equal ignoring case; the halved sum
\* of the two is the total score.
C9_ClassifyScorer ==
  (fn_out.op = "score_classify" /\ fn_out.output.t = "text") =>
    LET rec == ObtainedRecord(fn_out.output)
        hasLabel == Len(rec) = 1 /\ "label" \in DOMAIN rec[1]
        label == IF hasLabel THEN rec[1].label ELSE PyNone
        expected == "expected_label" \in DOMAIN fn_in.case
        same == /\ label.t = "str"
                /\ expected
                /\ Lower(label.v) = Lower(fn_in.case.expected_label.v)
    IN /\ ~fn_out.res.raised
       /\ fn_out.res.val.ok_json = PyFloat(IF hasLabel THEN 1000 ELSE 0)
       /\ fn_out.res.val.score_label = PyFloat(IF same THEN 1000 ELSE 0)
       /\ \A r \in Scored(EmptyDict, fn_out.res.val, "ok_json", "score_label") :
            2 * r.total_score.v
              = fn_out.res.val.ok_json.v + fn_out.res.val.score_label.v

\* the few-shot prompt as the specification states it: one block per shot in
\* declared order, each followed by a blank line, then the case block
RECURSIVE FewShotPrompt(_, _)
FewShotPrompt(shots, case) ==
  IF Len(shots) = 0
  THEN "User: " \o case.task \o "\n" \o case.input \o "\nAssistant:"
  ELSE "User: " \o shots[1].user \o "\nAssistant: " \o shots[1].model \o "\n\n"
       \o FewShotPrompt(Tail(shots), case)

\* C10: for every variant with N > 0 few-shots and every case, render returns
\* the N shot blocks followed by the case block, whatever the variant's
\* prompt template contains.
C10_FewShotRender ==
  (/\ fn_out.op = "render_prompt"
   /\ "few_shots" \in DOMAIN fn_in.variant
   /\ Len(fn_in.variant.few_shots) > 0) =>
    /\ ~fn_out.res.raised
    /\ fn_out.res.val.prompt = FewShotPrompt(fn_in.variant.few_shots, fn_in.case)

---------------------------------------------------------------------------
(* Sequential execution *)

\* the applicable pairs that precede the pair (vi, ci) in variant-major order
EarlierPairs ==
  SelectSeq(SubSeq(AllPairs, 1, (vi - 1) * Len(cases) + ci - 1),
            LAMBDA p : Applies(variants[p[1]], cases[p[2]]))

\* while a model invocation is outstanding it is the one of the current pair,
\* and every earlier applicable pair has its record in rows
OneInvocationInOrder ==
  /\ (request # NoRequest) <=> (pc = "invoking")
  /\ pc = "invoking" =>
       /\ Applies(variants[vi], cases[ci])
       /\ request.prompt = render_prompt(variants[vi], cases[ci]).val.prompt
       /\ [i \in 1..Len(rows) |-> <<rows[i].variant.v, rows[i].case_id.v>>]
            = [i \in 1..Len(EarlierPairs) |->
                 <<variants[EarlierPairs[i][1]].id, cases[EarlierPairs[i][2]].id>>]

\* an invocation starts only from the loop, with none outstanding; rows grows
\* by one record at its end and only when the outstanding invocation returns;
\* no record is removed or moved and no field of a record changes
RowsOnlyAppended ==
  /\ (request' # NoRequest /\ request' # request) => (pc = "loop" /\ request = NoRequest)
  /\ Len(rows') \in {Len(rows), Len(rows) + 1}
  /\ Len(rows') = Len(rows) + 1 => (pc = "invoking" /\ request' = NoRequest)
  /\ \A i \in 1..Len(rows) : \A k \in DOMAIN rows[i] :
       k \in DOMAIN rows'[i] /\ rows'[i][k] = rows[i][k]

\* C12: execution is strictly sequential: at most one model invocation is
\* outstanding, the invocation of a pair starts only after the record of
\* every earlier applicable pair has been scored and appended, and the result
\* sequence is only ever extended at its end, by the main loop.
C12_Sequential == []OneInvocationInOrder /\ [][RowsOnlyAppended]_vars

\* the invocation of the first pair of the second variant is outstanding,
\* two records are in rows and one earlier pair was skipped
C12_Witness ==
  /\ pc = "invoking"
  /\ vi = 2 /\ ci = 1
  /\ Len(cases) = 3 \/ Len(cases) = 2
  /\ Len(rows) = Len(cases) - 1
  /\ Len(rows) >= 1

---------------------------------------------------------------------------
(* Token counting: call_model of the explorer and the run command *)

Unset == [t |-> "unset"]

\* client.count_tokens(text): a total, or the backend call raises
CountOutcomes == {Raised("CountError")} \cup {Returned(PyInt(n)) : n \in 1..MaxTokens}

CallModelInputs ==
  {[handler |-> "call_model", step |-> "start", variant |-> v, case |-> c,
    prompt |-> Unset, text |-> Unset, prompt_tokens |-> Unset,
    output_tokens |-> Unset, failed |-> {}, exc |-> "none", result |-> Unset] :
     v \in VariantPool, c \in CasePool}

RunInputs ==
  {[handler |-> "run", step |-> "start", prompt_text |-> p, show_tokens |-> b,
    failed |-> {}, exc |-> "none", printed |-> <<>>] :
     p \in {"Say hello", "Summarize this"}, b \in BOOLEAN}

InitTok ==
  /\ tk \in CallModelInputs \cup RunInputs
  /\ fn_in = <<>>
  /\ fn_out = NoCall
  /\ variants = <<>>
  /\ cases = <<>>
  /\ vi = 1
  /\ ci = 1
  /\ pc = "tok"
  /\ err = NoError
  /\ request = NoRequest
  /\ rows = <<>>
  /\ out_csv = NotWritten
  /\ out_json = NotWritten

TokFrame == UNCHANGED <<MainVars, fn_in, fn_out>>

\* call_model: render_prompt raises
CmRenderFail ==
  /\ tk.handler = "call_model" /\ tk.step = "start"
  /\ render_prompt(tk.variant, tk.case).raised
  /\ tk' = [tk EXCEPT !.step = "aborted", !.exc = "render"]
  /\ TokFrame

\* call_model: the prompt is rendered and the model call issued
CmStart ==
  /\ tk.handler = "call_model" /\ tk.step = "start"
  /\ ~render_prompt(tk.variant, tk.case).raised
  /\ tk' = [tk EXCEPT !.step = "generating",
                      !.prompt = PyStr(render_prompt(tk.variant, tk.case).val.prompt)]
  /\ TokFrame

\* call_model: the model call raises
CmGenerateFail ==
  /\ tk.handler = "call_model" /\ tk.step = "generating"
  /\ tk' = [tk EXCEPT !.step = "aborted", !.exc = "generate"]
  /\ TokFrame

\* call_model: text = resp.text
CmGenerate ==
  /\ tk.handler = "call_model" /\ tk.step = "generating"
  /\ \E text \in ModelOutputs : tk' = [tk EXCEPT !.step = "count_prompt", !.text = text]
  /\ TokFrame

\* try: t_prompt = client.count_tokens(rendered["prompt"])
\* except Exception: t_prompt = None
CmCountPrompt ==
  /\ tk.handler = "call_model" /\ tk.step = "count_prompt"
  /\ \E c \in CountOutcomes :
       tk' = [tk EXCEPT !.step = "count_output",
                        !.prompt_tokens = IF c.raised THEN PyNone ELSE c.val,
                        !.failed = IF c.raised THEN @ \cup {"prompt"} ELSE @]
  /\ TokFrame

\* try: t_output = client.count_tokens(text or "")
\* except Exception: t_output = None; then the record is returned
CmCountOutput ==
  /\ tk.handler = "call_model" /\ tk.step = "count_output"
  /\ \E c \in CountOutcomes :
       LET t_output == IF c.raised THEN PyNone ELSE c.val
       IN tk' = [tk EXCEPT !.step = "done",
                           !.output_tokens = t_output,
                           !.failed = IF c.raised THEN @ \cup {"output"} ELSE @,
                           !.result =
                             [variant |-> PyStr(tk.variant.id),
                              title |-> PyStr(Get(tk.variant, "title", tk.variant.id)),
                              prompt |-> tk.prompt,
                              system |-> Get(tk.variant, "system", PyNone),
                              output |-> IF Truthy(tk.text) THEN tk.text ELSE PyStr(""),
                              prompt_tokens |-> tk.prompt_tokens,
                              output_tokens |-> t_output]]
  /\ TokFrame

\* run with --show-tokens: tokens = client.count_tokens(prompt_text), outside
\* any try block, then the count is printed
RunCount ==
  /\ tk.handler = "run" /\ tk.step = "start"
  /\ tk.show_tokens
  /\ \E c \in CountOutcomes :
       tk' = IF c.raised
             THEN [tk EXCEPT !.step = "aborted", !.exc = "count_tokens",
                             !.failed = {"prompt"}]
             ELSE [tk EXCEPT !.step = "generating",
                             !.printed = Append(@, [tokens |-> c.val])]
  /\ TokFrame

\* run without --show-tokens
RunNoCount ==
  /\ tk.handler = "run" /\ tk.step = "start"
  /\ ~tk.show_tokens
  /\ tk' = [tk EXCEPT !.step = "generating"]
  /\ TokFrame

\* run: client.generate_text raises
RunGenerateFail ==
  /\ tk.handler = "run" /\ tk.step = "generating"
  /\ tk' = [tk EXCEPT !.step = "aborted", !.exc = "generate"]
  /\ TokFrame

\* run: the model output is printed
RunGenerate ==
  /\ tk.handler = "run" /\ tk.step = "generating"
  /\ \E text \in ModelOutputs :
       tk' = [tk EXCEPT !.step = "done", !.printed = Append(@, [output |-> text])]
  /\ TokFrame

NextTok ==
  \/ CmRenderFail
  \/ CmStart
  \/ CmGenerateFail
  \/ CmGenerate
  \/ CmCountPrompt
  \/ CmCountOutput
  \/ RunCount
  \/ RunNoCount
  \/ RunGenerateFail
  \/ RunGenerate

SpecTok == InitTok /\ [][NextTok]_vars

\* C11: a token-counting failure never aborts the operation that asked for
\* the count: no operation ends on a counting error, and an operation whose
\* count failed ends with the generation's result produced and the token
\* metric unavailable.
C11_CountFailureTolerated ==
  /\ ~(tk.step = "aborted" /\ tk.exc = "count_tokens")
  /\ (tk.step \in {"done", "aborted"} /\ tk.failed # {}) =>
       /\ tk.step = "done"
       /\ tk.handler = "call_model" =>
            /\ tk.result.output.t \in {"str", "text"}
            /\ "prompt" \in tk.failed => tk.result.prompt_tokens = PyNone
            /\ "output" \in tk.failed => tk.result.output_tokens = PyNone
       /\ tk.handler = "run" =>
            \E i \in 1..Len(tk.printed) : "output" \in DOMAIN tk.printed[i]

====
